---- MODULE Spec2Model ----
(***************************************************************************)
(* TollChain hardware integration (src/hardware/main.py).                  *)
(*                                                                         *)
(* Two asyncio coroutines, scan_loop and websocket_loop, run on one event  *)
(* loop.  A coroutine keeps the loop from its wake-up to its next await;   *)
(* time.sleep (in buzz) and requests.post block the loop and so the other  *)
(* coroutine.  Time is counted in tenths of a second: 0.1 s is 1.          *)
(***************************************************************************)
EXTENDS Integers, Sequences, FiniteSets, TLC

\* ---------------------------------------------------------------- bounds
MaxTime  == 62      \* the clock stops here
MaxReads == 2       \* polls in which a sensor yields an identifier
MaxMsgs  == 1       \* inbound channel messages delivered
QuietUntil == 27    \* no identifier before this time while the channel is up

\* ------------------------------------------------------ program constants
scan_cooldown  == 50    \* self.scan_cooldown = 5 seconds
PostTimeout    == 50    \* requests.post(..., timeout=5)
ShortBuzz      == 3     \* self.buzz(0.3)
LongBuzz       == 10    \* self.buzz(1.0)
DefaultBuzz    == 5     \* command.get('duration', 0.5)
VerdictHold    == 20    \* await asyncio.sleep(2)
BackendErrHold == 10    \* await asyncio.sleep(1) after yellow
ErrorHold      == 10    \* await asyncio.sleep(1) after red in the handler
IdlePause      == 1     \* await asyncio.sleep(0.1)
LoopErrPause   == 10    \* await asyncio.sleep(1) in websocket_loop's handler
BackoffShort   == LoopErrPause  \* mutant of Backoff: the 1 s pause instead
Backoff        == 50    \* await asyncio.sleep(5)
TestLedHold    == 10    \* await asyncio.sleep(1) in test_led
HttpOk         == 200   \* response.status_code == 200

\* ------------------------------------------------------------ value sets
None      == "None"
Err       == "error"    \* a sensor read that raises inside read_rfid / scan_qr_code
NoTime    == -1
Ids       == {"VEH_001", "VEH_002"}
Colors    == {"green", "red", "yellow"}
Statuses  == {200, 201, 500}
Bodies    == {"registered", "unregistered", "missing", "badjson"}

VARIABLES
    now,             \* time.time() / the event loop's clock
    is_running,      \* self.is_running
    rfid_serial,     \* self.rfid_serial is not None
    camera,          \* self.camera is not None
    websocket,       \* self.websocket: None, or a connection that is open or closed
    last_scan_time,  \* self.last_scan_time: identifier -> time, NoTime when absent
    led,             \* GPIO outputs LED_GREEN, LED_RED, LED_YELLOW
    buzzer,          \* GPIO output BUZZER_PIN
    holder,          \* the coroutine that holds the event loop, "none" at an await
    spc, swake,      \* scan_loop: position, and the deadline of its sleep
    wpc, wwake,      \* websocket_loop: position, and the deadline of its sleep
    slocal,          \* process_vehicle_scan's locals
    wlocal,          \* handle_hardware_command's locals
    budget,          \* what the environment may still do
    poll,            \* history: the sensor poll just made by scan_loop
    dec,             \* history: the cooldown decision of the last iteration
    cyc,             \* history: what the accepted scan of the last iteration did
    chan,            \* history: the event channel's last operations
    main,            \* main(): its position, and what stop() has released
    cmd              \* history: the inbound message being dispatched

vars == <<now, is_running, rfid_serial, camera, websocket, last_scan_time, led,
          buzzer, holder, spc, swake, wpc, wwake, slocal, wlocal, budget,
          poll, dec, cyc, chan, main, cmd>>


\* ------------------------------------------------------- pure operations
Min(a, b) == IF a <= b THEN a ELSE b

\* read_rfid: nothing without a reader or when the read raises; otherwise
\* the waiting line, if any.
ReadRfid(handle, line) == IF ~handle \/ line = Err THEN None ELSE line

\* scan_qr_code: nothing without a camera or when the capture raises;
\* otherwise the first decoded payload.
ScanQrCode(handle, frame) == IF ~handle \/ frame = Err THEN None ELSE frame

\* Mutant of QrPolled: the camera is polled whatever the RFID reader gave.
QrPolledAlways(rfidh, camh, line) == camh

\* scan_loop, lines 294-298: RFID first, QR only if RFID gave nothing and a
\* camera exists.
QrPolled(rfidh, camh, line) == ReadRfid(rfidh, line) = None /\ camh

SelectVehicle(rfidh, camh, line, frame) ==
    IF QrPolled(rfidh, camh, line) THEN ScanQrCode(camh, frame)
                                   ELSE ReadRfid(rfidh, line)

SourceOf(rfidh, camh, line, frame) ==
    IF ReadRfid(rfidh, line) # None THEN "rfid"
    ELSE IF SelectVehicle(rfidh, camh, line, frame) # None THEN "qr" ELSE None

\* Mutant of ShouldProcess: the cooldown still holds at exactly 5 s.
ShouldProcessInclusive(lst, vehicle_id, current_time) ==
    ~(lst[vehicle_id] # NoTime
      /\ current_time - lst[vehicle_id] <= scan_cooldown)

\* process_vehicle_scan, lines 215-218: the cooldown test.
ShouldProcess(lst, vehicle_id, current_time) ==
    ~(lst[vehicle_id] # NoTime
      /\ current_time - lst[vehicle_id] < scan_cooldown)

\* line 220: executed only when the scan was not suppressed.
RecordScan(lst, vehicle_id, current_time, accepted) ==
    IF accepted THEN [lst EXCEPT ![vehicle_id] = current_time] ELSE lst

\* line 229
ScanType(rfidh) == IF rfidh THEN "rfid" ELSE "qr"

\* Mutant of StatusOk: every 2xx answer counts as success.
StatusOk2xx(status) == status \in 200..299

\* line 239
StatusOk(status) == status = HttpOk

\* Mutant of Registered: a missing key defaults to registered.
RegisteredDefaultTrue(body) == body \in {"registered", "missing"}

\* line 241: result.get('registered', False)
Registered(body) == body = "registered"

\* How the report call ends, lines 233-241 and 281: an exception from
\* requests.post or response.json(), a non-200 answer, or a verdict.
PostOutcome(net, status, body) ==
    IF net # "response" THEN "unreachable"
    ELSE IF ~StatusOk(status) THEN "rejected"
    ELSE IF body = "badjson" THEN "badbody"
    ELSE IF Registered(body) THEN "registered" ELSE "unregistered"

\* The LED each outcome of the report call turns on.
OutcomeLed(outcome) ==
    CASE outcome = "registered"   -> "green"
      [] outcome = "unregistered" -> "red"
      [] outcome = "rejected"     -> "yellow"
      [] OTHER                    -> "red"

VerdictBuzz(outcome) == IF outcome = "registered" THEN ShortBuzz ELSE LongBuzz

\* Mutant of PostNext: a report that failed is made again.
PostNextRetry(outcome) ==
    CASE outcome \in {"registered", "unregistered"} -> "buzz"
      [] outcome = "rejected"                        -> "yhold"
      [] OTHER                                       -> "post"

\* Where process_vehicle_scan goes after the report call: the verdict branch
\* (lines 241-267), the backend-error branch (276-279) or the handler (281).
PostNext(outcome) ==
    CASE outcome \in {"registered", "unregistered"} -> "buzz"
      [] outcome = "rejected"                        -> "yhold"
      [] OTHER                                       -> "ehold"

NotifyType(outcome) ==
    IF outcome = "registered" THEN "vehicle_detected" ELSE "unregistered_vehicle"

\* Mutant of SendResult: the send is attempted without testing the handle.
SendNoGuard(ws) == IF ws = "open" THEN "sent" ELSE "raised"

\* `if self.websocket: await self.websocket.send(...)`: skipped without a
\* handle, sent on an open connection, ConnectionClosed on a closed one.
SendResult(ws) ==
    CASE ws = None   -> "skipped"
      [] ws = "open" -> "sent"
      [] OTHER       -> "raised"

\* Mutant of NotifyNext: without a connection the notification is retried
\* until there is one.
NotifyNextWait(r) ==
    CASE r = "raised"  -> "ehold"
      [] r = "skipped" -> "notify"
      [] OTHER         -> "hold"

\* After the notification: the 2 s hold of line 270, or the handler of line
\* 281 when the send raised.
NotifyNext(r) == IF r = "raised" THEN "ehold" ELSE "hold"

\* Mutant of AfterCycle: a cycle that ended in an error branch ends the loop.
AfterCycleFailStops(pc) == IF pc = "hold" THEN "idle" ELSE "end"

\* scan_loop, lines 302-305: whichever branch process_vehicle_scan returned
\* from, the loop goes on to its 0.1 s pause.
AfterCycle(pc) == "idle"

\* Mutant of ConnectSends: no status payload on a new connection.
ConnectSendsNothing(result) == None

\* connect_websocket, lines 113-117: what goes out on the connection just
\* made, before the coroutine yields.
ConnectSends(result) == IF result = "open" THEN "hardware_status" ELSE None

\* websocket_loop lines 322-325 and handle_hardware_command: a body that does
\* not parse raises, a message of another type or with an unknown tag is
\* ignored, a known tag selects its branch.
Dispatch(kind) ==
    CASE kind \in {"test_led", "test_buzzer", "status_request"} -> kind
      [] kind = "unparsable"                                     -> "error"
      [] OTHER                                                   -> "drop"

\* set_status_led: an unknown colour changes nothing.
SetStatusLed(l, color, state) ==
    IF color \in Colors THEN [l EXCEPT ![color] = state] ELSE l

\* Locals of process_vehicle_scan and of handle_hardware_command outside a call.
NoLocals  == [vehicle_id |-> None, current_time |-> NoTime, outcome |-> None]
NoCommand == [color |-> None, duration |-> 0]

\* ------------------------------------------------------------- histories
NoPoll == [line |-> None, frame |-> None, qrPolled |-> FALSE,
           vid |-> None, src |-> None, at |-> NoTime, after |-> None]

\* How the iteration before a poll ended: with a cycle that took an error
\* branch, with a cycle that did not, with a sensor read that raised, or
\* with nothing.
EndedWith(c, pl) ==
    IF c.done THEN (IF c.err \/ c.post = "rejected" THEN "failed" ELSE "ok")
    ELSE IF Err \in {pl.line, pl.frame} THEN "sensor_error" ELSE None
NoDec  == [vid |-> None, at |-> NoTime, prev |-> NoTime, accepted |-> FALSE,
           after |-> None]
NoCyc  == [vid |-> None, t0 |-> NoTime, src |-> None, scanType |-> None,
           posts |-> 0, net |-> None, status |-> 0, body |-> None,
           post |-> None,
           on |-> {}, onAt |-> [c \in Colors |-> NoTime],
           buzz |-> <<>>, buzzEnd |-> NoTime,
           wsAtNotify |-> "n/a", sent |-> <<>>, err |-> FALSE,
           due |-> NoTime, blocked |-> FALSE,
           offAt |-> [c \in Colors |-> NoTime],
           atReturn |-> [c \in Colors |-> FALSE], done |-> FALSE]
NoChan == [op |-> None, discAt |-> NoTime, tryAt |-> NoTime,
           wire |-> None, wireVid |-> None, wireTs |-> NoTime,
           first |-> None, cause |-> None, retried |-> {}]

\* scan_ran: the step just taken was scan_loop running to its next await (a
\* sensor poll, requests.post, time.sleep in buzz, the end of a hold).
NoMain == [pc |-> "new", scan_ran |-> FALSE, rfid_closed |-> FALSE,
           camera_released |-> FALSE, close_task |-> FALSE]
AtAwait(m, ran) == [m EXCEPT !.scan_ran = ran]

\* A loop has ended cancelled: the event loop runs nothing more but the
\* other cancellation and main's finally clause.
Interrupted(s, w) == s = "cancelled" \/ w = "cancelled"
NoCmd  == [kind |-> None, color |-> None, duration |-> 0, at |-> NoTime,
           led0 |-> [c \in Colors |-> FALSE], buzzer0 |-> FALSE,
           led1 |-> [c \in Colors |-> FALSE],
           ws0 |-> None, chan0 |-> NoChan, calls |-> 0, done |-> FALSE,
           endAt |-> NoTime]

\* The record of a message is kept while its handler runs and dropped by the
\* first step after it.
Handling == {"ledhold", "buzz", "buzzing"}
KeepCmd(pc, c) == IF pc \in Handling THEN c ELSE NoCmd

CycOn(c, color, t) ==
    [c EXCEPT !.on = @ \cup {color}, !.onAt[color] = t]
CycOff(c, colors, t) ==
    [c EXCEPT !.offAt = [k \in Colors |-> IF k \in colors THEN t ELSE @[k]]]
CycReturn(c, l) == [c EXCEPT !.done = TRUE, !.atReturn = l]

\* What one run explores: which sensors came up at construction, and what
\* the environment may do.
\*   DedupRuns:    identifiers keep arriving at one reader while the backend
\*                 refuses every connection (up is false);
\*   SensorRuns:   one read, with any combination of sensors, same backend;
\*   ChannelRuns:  one read, no sooner than QuietUntil, while the channel
\*                 connects and delivers commands;
\*   ShutdownRuns: one read, the channel connects, and the process may be
\*                 interrupted;
\*   ReconnectRuns: no read, on a clock that runs two back-offs longer: the
\*                 channel may fail to connect, connect, and be closed by the
\*                 peer.
\* The clock of a run stops at its field until.
DedupRuns ==
    [rfid : {TRUE}, camera : {FALSE}, ids : {Ids}, reads : {MaxReads},
     quiet : {0}, up : {FALSE}, msgs : {0}, stop : {FALSE},
     until : {MaxTime}]
SensorRuns ==
    [rfid : BOOLEAN, camera : BOOLEAN, ids : {Ids}, reads : {1},
     quiet : {0}, up : {FALSE}, msgs : {0}, stop : {FALSE},
     until : {MaxTime}]
ChannelRuns ==
    [rfid : {TRUE}, camera : {FALSE}, ids : {{"VEH_001"}}, reads : {1},
     quiet : {QuietUntil}, up : {TRUE}, msgs : {MaxMsgs}, stop : {FALSE},
     until : {MaxTime}]
ShutdownRuns ==
    [rfid : {TRUE}, camera : {FALSE}, ids : {{"VEH_001"}}, reads : {1},
     quiet : {QuietUntil}, up : {TRUE}, msgs : {0}, stop : {TRUE},
     until : {MaxTime}]
ReconnectRuns ==
    [rfid : {TRUE}, camera : {FALSE}, ids : {{"VEH_001"}}, reads : {0},
     quiet : {0}, up : {TRUE}, msgs : {0}, stop : {FALSE},
     until : {MaxTime + 2 * Backoff}]
Scenarios ==
    DedupRuns \cup SensorRuns \cup ChannelRuns \cup ShutdownRuns
    \cup ReconnectRuns

\* ------------------------------------------------------------------ Init
InitIn(scenarios) ==
    /\ now = 0
    /\ is_running = FALSE
    /\ \E sc \in scenarios :
          /\ rfid_serial = sc.rfid      \* setup_rfid_reader may fail
          /\ camera = sc.camera         \* setup_qr_camera may fail
          /\ budget = [ids |-> sc.ids, reads |-> sc.reads, quiet |-> sc.quiet,
                       up |-> sc.up, msgs |-> sc.msgs, stop |-> sc.stop,
                       until |-> sc.until]
    /\ websocket = None
    /\ last_scan_time = [i \in Ids |-> NoTime]
    /\ led = [c \in Colors |-> FALSE]
    /\ buzzer = FALSE
    /\ holder = "none"
    /\ spc = "off" /\ swake = 0
    /\ wpc = "off" /\ wwake = 0
    /\ slocal = NoLocals
    /\ wlocal = NoCommand
    /\ poll = NoPoll
    /\ dec = NoDec
    /\ cyc = NoCyc
    /\ chan = NoChan
    /\ main = NoMain
    /\ cmd = NoCmd

Init == InitIn(Scenarios)

\* The runs with at most one read: the liveness properties are checked on
\* these.
LiveInit ==
    InitIn(SensorRuns \cup ChannelRuns \cup ShutdownRuns \cup ReconnectRuns)

\* websocket_loop, lines 313-321: what the loop does at the top of an
\* iteration.
WsTop(running, ws) ==
    IF ~running THEN "end" ELSE IF ws = None THEN "connecting" ELSE "recv"

\* start(): both loops are scheduled.
Start ==
    /\ spc = "off" /\ wpc = "off"
    /\ is_running' = TRUE
    /\ spc' = "idle" /\ swake' = now
    /\ wpc' = "sleep" /\ wwake' = now
    /\ main' = [main EXCEPT !.pc = "running"]
    /\ UNCHANGED <<now, rfid_serial, camera, websocket, last_scan_time, led,
                   buzzer, holder, slocal, wlocal, budget, poll, dec, cyc, chan,
                   cmd>>

\* ------------------------------------------------------------- scan_loop
\* One iteration of scan_loop up to its first await: poll the sensors and,
\* for an identifier, the cooldown test of process_vehicle_scan.
ScanPoll(line, frame) ==
    /\ spc = "idle" /\ holder = "none" /\ now >= swake /\ is_running
    /\ ~Interrupted(spc, wpc)
    /\ {line, frame} \subseteq budget.ids \cup {None, Err}
    /\ (line # None \/ frame # None) =>
          (budget.reads > 0 /\ now >= budget.quiet)
    /\ LET vid  == SelectVehicle(rfid_serial, camera, line, frame)
           src  == SourceOf(rfid_serial, camera, line, frame)
           acc  == vid # None /\ ShouldProcess(last_scan_time, vid, now)
       IN  /\ poll' = [line |-> line, frame |-> frame,
                       qrPolled |-> QrPolled(rfid_serial, camera, line),
                       vid |-> vid, src |-> src, at |-> now,
                       after |-> EndedWith(cyc, poll)]
           /\ budget' = IF line # None \/ frame # None
                        THEN [budget EXCEPT !.reads = @ - 1] ELSE budget
           /\ IF vid = None
              THEN /\ spc' = "idle" /\ swake' = now + IdlePause
                   /\ dec' = NoDec /\ cyc' = NoCyc
                   /\ UNCHANGED <<last_scan_time, slocal, holder>>
              ELSE /\ dec' = [vid |-> vid, at |-> now,
                              prev |-> last_scan_time[vid], accepted |-> acc,
                              after |-> IF cyc.done /\ cyc.vid = vid
                                        THEN cyc.post ELSE None]
                   /\ last_scan_time' = RecordScan(last_scan_time, vid, now, acc)
                   /\ IF acc
                      THEN /\ spc' = "post" /\ holder' = "scan"
                           /\ swake' = swake
                           /\ slocal' = [vehicle_id |-> vid, current_time |-> now,
                                         outcome |-> None]
                           /\ cyc' = [NoCyc EXCEPT !.vid = vid, !.t0 = now,
                                                   !.src = src]
                      ELSE /\ spc' = "idle" /\ swake' = now + IdlePause
                           /\ cyc' = NoCyc
                           /\ UNCHANGED <<slocal, holder>>
    /\ cmd' = KeepCmd(wpc, cmd)
    /\ main' = AtAwait(main, holder' = "none")
    /\ UNCHANGED <<now, is_running, rfid_serial, camera, websocket, led, buzzer,
                   wpc, wwake, wlocal, chan>>

\* Lines 223-241 and the branch taken: requests.post blocks the event loop
\* (PostTimeout when it times out), then the LED of the outcome is set.
ScanPost(net, status, body) ==
    /\ spc = "post" /\ holder = "scan"
    /\ LET d   == IF net = "timeout" THEN PostTimeout ELSE 0
           out == PostOutcome(net, status, body)
           col == OutcomeLed(out)
       IN  /\ now + d <= budget.until
           /\ now' = now + d
           /\ led' = SetStatusLed(led, col, TRUE)
           /\ slocal' = [slocal EXCEPT !.outcome = out]
           /\ cyc' = LET c1 == [cyc EXCEPT !.posts = @ + 1, !.post = out,
                                           !.net = net,
                                           !.status = IF net = "response"
                                                      THEN status ELSE 0,
                                           !.body = IF net = "response"
                                                       /\ StatusOk(status)
                                                    THEN body ELSE None,
                                           !.scanType = ScanType(rfid_serial),
                                           !.err = out \in {"unreachable", "badbody"}]
                         c2 == CycOn(c1, col, now + d)
                     IN  IF out \in {"registered", "unregistered"}
                         THEN c2
                         ELSE [c2 EXCEPT !.due = now + d +
                                 (IF out = "rejected" THEN BackendErrHold
                                                      ELSE ErrorHold)]
           /\ spc' = PostNext(out)
           /\ IF out \in {"registered", "unregistered"}
              THEN UNCHANGED <<holder, swake>>
              ELSE /\ swake' = now + d + (IF out = "rejected" THEN BackendErrHold
                                                              ELSE ErrorHold)
                   /\ holder' = "none"
    /\ poll' = NoPoll
    /\ cmd' = KeepCmd(wpc, cmd)
    /\ main' = AtAwait(main, holder' = "none")
    /\ UNCHANGED <<is_running, rfid_serial, camera, websocket, last_scan_time,
                   buzzer, wpc, wwake, wlocal, budget, dec, chan>>


\* buzz(): GPIO.output(BUZZER_PIN, HIGH).
BuzzHigh(b) == TRUE

\* buzz(): time.sleep(duration) blocks for a valid duration and the pin goes
\* low; for an invalid one time.sleep raises, the handler only logs and the
\* pin stays as it was.
BuzzValid(duration) == duration >= 0
BuzzLow(b, duration) == IF BuzzValid(duration) THEN FALSE ELSE b
BuzzTime(duration) == IF BuzzValid(duration) THEN duration ELSE 0

\* Lines 244 / 258, first half of buzz: the pin goes high.
ScanBuzzOn ==
    /\ spc = "buzz" /\ holder = "scan"
    /\ buzzer' = BuzzHigh(buzzer)
    /\ spc' = "buzzing"
    /\ cmd' = KeepCmd(wpc, cmd)
    /\ UNCHANGED <<main, now, is_running, rfid_serial, camera, websocket,
                   last_scan_time, led, holder, swake, wpc, wwake, slocal,
                   wlocal, budget, poll, dec, cyc, chan>>

\* Second half of buzz: the blocking wait, then the pin goes low.
ScanBuzzOff ==
    /\ spc = "buzzing" /\ holder = "scan"
    /\ LET d == VerdictBuzz(slocal.outcome)
       IN  /\ now + BuzzTime(d) <= budget.until
           /\ now' = now + BuzzTime(d)
           /\ buzzer' = BuzzLow(buzzer, d)
           /\ cyc' = [cyc EXCEPT !.buzz = Append(@, d),
                                 !.buzzEnd = now + BuzzTime(d)]
    /\ spc' = "notify"
    /\ cmd' = KeepCmd(wpc, cmd)
    /\ UNCHANGED <<main, is_running, rfid_serial, camera, websocket, last_scan_time,
                   led, holder, swake, wpc, wwake, slocal, wlocal, budget,
                   poll, dec, chan>>

\* Lines 247-254 / 261-267 and what follows: the notification, then either
\* the 2 s hold (line 270) or, when the send raised, the handler of line 281.
ScanNotify ==
    /\ spc = "notify" /\ holder = "scan"
    /\ LET r   == SendResult(websocket)
           ty  == NotifyType(slocal.outcome)
           c1  == [cyc EXCEPT !.wsAtNotify = websocket]
       IN  CASE r = "raised" ->
                  /\ led' = SetStatusLed(led, "red", TRUE)
                  /\ swake' = now + ErrorHold
                  /\ cyc' = [CycOn(c1, "red", now) EXCEPT
                                !.err = TRUE, !.due = now + ErrorHold]
                  /\ chan' = [chan EXCEPT !.op = "send_fail"]
             [] r = "sent" ->
                  /\ led' = led
                  /\ swake' = now + VerdictHold
                  /\ cyc' = [c1 EXCEPT !.sent = Append(@, ty),
                                       !.due = now + VerdictHold]
                  /\ chan' = [chan EXCEPT
                                !.op = "send_ok", !.wire = ty,
                                !.wireVid = slocal.vehicle_id,
                                !.wireTs = slocal.current_time,
                                !.first = IF @ = None THEN ty ELSE @]
             [] OTHER ->
                  /\ led' = led
                  /\ swake' = now + VerdictHold
                  /\ cyc' = [c1 EXCEPT !.due = now + VerdictHold]
                  /\ chan' = chan
    /\ spc' = NotifyNext(SendResult(websocket))
    /\ holder' = "none"
    /\ cmd' = KeepCmd(wpc, cmd)
    /\ main' = AtAwait(main, TRUE)
    /\ UNCHANGED <<now, is_running, rfid_serial, camera, websocket,
                   last_scan_time, buzzer, wpc, wwake, slocal, wlocal, budget,
                   poll, dec>>

\* The end of a hold: the LEDs named are switched off, process_vehicle_scan
\* returns and scan_loop starts its 0.1 s pause (line 305).
HoldDone(pc, colors) ==
    /\ spc = pc /\ holder = "none" /\ now >= swake
    /\ ~Interrupted(spc, wpc)
    /\ led' = [c \in Colors |-> IF c \in colors THEN FALSE ELSE led[c]]
    /\ cyc' = CycReturn(CycOff(cyc, colors, now), led')
    /\ spc' = AfterCycle(pc) /\ swake' = now + IdlePause
    /\ slocal' = NoLocals
    /\ cmd' = KeepCmd(wpc, cmd)
    /\ main' = AtAwait(main, TRUE)
    /\ UNCHANGED <<now, is_running, rfid_serial, camera, websocket,
                   last_scan_time, buzzer, holder, wpc, wwake, wlocal,
                   budget, poll, dec, chan>>

\* Lines 270-272
ScanVerdictDone == HoldDone("hold", {"green", "red"})
\* Lines 278-279
ScanBackendErrDone == HoldDone("yhold", {"yellow"})
\* Lines 284-285
ScanErrorDone == HoldDone("ehold", {"red"})


\* -------------------------------------------------------- websocket_loop
\* Inbound messages: commands with their parameters (an absent colour is
\* 'green', an absent duration 0.5), a command with an unknown tag, a message
\* of another type, and a body json.loads cannot parse.
BadDuration == -1
Messages ==
    [kind : {"test_led"}, color : Colors \cup {"blue"}, duration : {0}]
    \cup [kind : {"test_buzzer"}, color : {None},
          duration : {DefaultBuzz, LongBuzz, BadDuration}]
    \cup [kind : {"status_request", "unknown", "other_type", "unparsable"},
          color : {None}, duration : {0}]

\* The history of a loop iteration that starts a connect attempt.
ChanTop(ch, running, ws, t) ==
    IF WsTop(running, ws) = "connecting"
    THEN [ch EXCEPT !.tryAt = t, !.retried = @ \cup ({ch.cause} \ {None})]
    ELSE ch

\* Lines 313-321: a sleep of the loop ends and the next iteration starts,
\* with a connect attempt or with recv.
WsWake ==
    /\ wpc = "sleep" /\ holder = "none" /\ now >= wwake
    /\ ~Interrupted(spc, wpc)
    /\ wpc' = WsTop(is_running, websocket)
    /\ chan' = ChanTop(chan, is_running, websocket, now)
    /\ cmd' = KeepCmd(wpc, cmd)
    /\ main' = AtAwait(main, FALSE)
    /\ UNCHANGED <<now, is_running, rfid_serial, camera, websocket,
                   last_scan_time, led, buzzer, holder, spc, swake, wwake,
                   slocal, wlocal, budget, poll, dec, cyc>>

\* connect_websocket, lines 112-121, then line 317.  The attempt fails, or it
\* yields a connection that is open, or one the peer has closed by the time
\* the coroutine resumes; send_hardware_status only logs a failed send.
WsConnectDone(result) ==
    /\ wpc = "connecting" /\ holder = "none"
    /\ ~Interrupted(spc, wpc)
    /\ result # "fail" => budget.up
    /\ websocket' = IF result = "fail" THEN None ELSE result
    /\ chan' = CASE result = "fail" ->
                      [chan EXCEPT !.op = "connect_fail", !.discAt = now,
                                   !.cause = "connect_fail"]
                 [] result = "open" ->
                      [chan EXCEPT !.op = "send_ok",
                                   !.wire = ConnectSends(result),
                                   !.wireVid = None, !.wireTs = NoTime,
                                   !.first = ConnectSends(result)]
                 [] OTHER ->
                      [chan EXCEPT !.op = "send_fail",
                                   !.first = None]
    /\ wpc' = "sleep" /\ wwake' = now + Backoff
    /\ cmd' = KeepCmd(wpc, cmd)
    /\ main' = AtAwait(main, FALSE)
    /\ UNCHANGED <<now, is_running, rfid_serial, camera, last_scan_time, led,
                   buzzer, holder, spc, swake, slocal, wlocal, budget, poll,
                   dec, cyc>>

\* Lines 321, 327-330: recv on a closed connection raises ConnectionClosed.
WsRecvClosed ==
    /\ wpc = "recv" /\ holder = "none" /\ websocket = "closed"
    /\ ~Interrupted(spc, wpc)
    /\ websocket' = None
    /\ chan' = [chan EXCEPT !.op = "recv_closed", !.discAt = now,
                            !.cause = "recv_closed"]
    /\ wpc' = "sleep" /\ wwake' = now + Backoff
    /\ cmd' = KeepCmd(wpc, cmd)
    /\ main' = AtAwait(main, FALSE)
    /\ UNCHANGED <<now, is_running, rfid_serial, camera, last_scan_time, led,
                   buzzer, holder, spc, swake, slocal, wlocal, budget, poll,
                   dec, cyc>>

\* Line 340: command.get('color', 'green').
CmdColor(msg) == IF msg.color = None THEN "green" ELSE msg.color

\* Lines 321-325, 331-333 and handle_hardware_command up to its first await.
WsRecv(msg) ==
    /\ wpc = "recv" /\ holder = "none" /\ websocket = "open"
    /\ ~Interrupted(spc, wpc)
    /\ budget.msgs > 0
    /\ budget' = [budget EXCEPT !.msgs = @ - 1]
    /\ LET d  == Dispatch(msg.kind)
           c0 == [NoCmd EXCEPT !.kind = msg.kind, !.color = msg.color,
                               !.duration = msg.duration, !.at = now,
                               !.led0 = led, !.led1 = led,
                               !.buzzer0 = buzzer,
                               !.ws0 = websocket, !.chan0 = chan]
       IN  CASE d = "error" ->
                  /\ wpc' = "sleep" /\ wwake' = now + LoopErrPause
                  /\ cmd' = [c0 EXCEPT !.done = TRUE, !.endAt = now]
                  /\ UNCHANGED <<led, holder, wlocal, chan>>
             [] d = "test_led" ->
                  /\ led' = SetStatusLed(led, CmdColor(msg), TRUE)
                  /\ wlocal' = [wlocal EXCEPT !.color = CmdColor(msg)]
                  /\ wpc' = "ledhold" /\ wwake' = now + TestLedHold
                  /\ cmd' = [c0 EXCEPT !.calls = 1, !.led1 = led']
                  /\ UNCHANGED <<holder, chan>>
             [] d = "test_buzzer" ->
                  /\ wlocal' = [wlocal EXCEPT !.duration = msg.duration]
                  /\ wpc' = "buzz" /\ holder' = "ws"
                  /\ cmd' = [c0 EXCEPT !.calls = 1]
                  /\ UNCHANGED <<led, wwake, chan>>
             [] d = "status_request" ->
                  /\ chan' = [chan EXCEPT !.op = "send_ok",
                                          !.wire = "hardware_status",
                                          !.wireVid = None, !.wireTs = NoTime]
                  /\ cmd' = [c0 EXCEPT !.calls = 1, !.done = TRUE,
                                       !.endAt = now]
                  /\ UNCHANGED <<led, holder, wlocal, wpc, wwake>>
             [] OTHER ->
                  /\ cmd' = [c0 EXCEPT !.done = TRUE, !.endAt = now]
                  /\ UNCHANGED <<led, holder, wlocal, wpc, wwake, chan>>
    /\ main' = AtAwait(main, FALSE)
    /\ UNCHANGED <<now, is_running, rfid_serial, camera, websocket,
                   last_scan_time, buzzer, spc, swake, slocal, poll, dec, cyc>>

\* Lines 342-343: the test LED goes off and the loop starts over.
WsLedDone ==
    /\ wpc = "ledhold" /\ holder = "none" /\ now >= wwake
    /\ ~Interrupted(spc, wpc)
    /\ led' = SetStatusLed(led, wlocal.color, FALSE)
    /\ cmd' = [cmd EXCEPT !.done = TRUE, !.endAt = now]
    /\ wpc' = WsTop(is_running, websocket)
    /\ chan' = ChanTop(chan, is_running, websocket, now)
    /\ wlocal' = NoCommand
    /\ main' = AtAwait(main, FALSE)
    /\ UNCHANGED <<now, is_running, rfid_serial, camera, websocket,
                   last_scan_time, buzzer, holder, spc, swake, wwake, slocal,
                   budget, poll, dec, cyc>>

\* Line 347, first half of buzz.
WsBuzzOn ==
    /\ wpc = "buzz" /\ holder = "ws"
    /\ buzzer' = BuzzHigh(buzzer)
    /\ wpc' = "buzzing"
    /\ cmd' = cmd
    /\ UNCHANGED <<main, now, is_running, rfid_serial, camera, websocket,
                   last_scan_time, led, holder, spc, swake, wwake, slocal,
                   wlocal, budget, poll, dec, cyc, chan>>

\* Second half of buzz; the scan coroutine cannot wake while it blocks.
WsBuzzOff ==
    /\ wpc = "buzzing" /\ holder = "ws"
    /\ LET d == wlocal.duration
       IN  /\ now + BuzzTime(d) <= budget.until
           /\ now' = now + BuzzTime(d)
           /\ buzzer' = BuzzLow(buzzer, d)
           /\ cyc' = IF spc \in {"hold", "yhold", "ehold"}
                        /\ now + BuzzTime(d) > swake
                     THEN [cyc EXCEPT !.blocked = TRUE] ELSE cyc
    /\ wpc' = WsTop(is_running, websocket)
    /\ chan' = ChanTop(chan, is_running, websocket, now')
    /\ holder' = "none"
    /\ wlocal' = NoCommand
    /\ cmd' = [cmd EXCEPT !.done = TRUE, !.endAt = now']
    /\ UNCHANGED <<main, is_running, rfid_serial, camera, websocket, last_scan_time,
                   led, spc, swake, wwake, slocal, budget, poll, dec>>

\* ------------------------------------------------------------ main, stop
\* An interrupt cancels main's task and, through the gather of line 358, both
\* loops; each loop ends when the event loop next runs it, and main then
\* resumes in its finally clause (line 394).  Nothing else runs in between.
\* A loop that waits is woken by the cancellation, scan_loop before
\* websocket_loop.  A loop whose wake-up is already scheduled keeps its
\* place in the queue, and a loop that is running when the interrupt arrives
\* runs on to its next await and is woken after the other one.  So
\* websocket_loop ends first when its wake-up was due, or when scan_loop was
\* running, at the moment of the interrupt.

\* websocket_loop's wake-up is scheduled: its timer has fired, the peer has
\* closed the connection it listens on, or its connect attempt is resolved.
WsDue(w, t, wake, ws) ==
    \/ w \in {"sleep", "ledhold"} /\ t >= wake
    \/ w = "recv" /\ ws = "closed"
    \/ w = "connecting"

\* scan_loop ends at its await: first, on an interrupt that arrives while
\* both loops wait, or after websocket_loop has ended.
ScanCancelled ==
    /\ main.pc = "running" /\ holder = "none" /\ spc # "cancelled"
    /\ wpc = "cancelled" \/ budget.stop
    /\ spc' = "cancelled"
    /\ slocal' = NoLocals
    /\ cmd' = KeepCmd(wpc, cmd)
    /\ main' = AtAwait(main, FALSE)
    /\ UNCHANGED <<now, is_running, rfid_serial, camera, websocket,
                   last_scan_time, led, buzzer, holder, swake, wpc, wwake,
                   wlocal, budget, poll, dec, cyc, chan>>

\* websocket_loop ends at its await: after scan_loop has ended, or first, on
\* an interrupt that arrived while scan_loop ran or while the wake-up of
\* websocket_loop was due.
WsCancelled ==
    /\ main.pc = "running" /\ holder = "none" /\ wpc # "cancelled"
    /\ \/ spc = "cancelled"
       \/ /\ budget.stop
          /\ main.scan_ran \/ WsDue(wpc, now, wwake, websocket)
    /\ wpc' = "cancelled"
    /\ wlocal' = NoCommand
    /\ cmd' = NoCmd
    /\ main' = AtAwait(main, FALSE)
    /\ UNCHANGED <<now, is_running, rfid_serial, camera, websocket,
                   last_scan_time, led, buzzer, holder, spc, swake, wwake,
                   slocal, budget, poll, dec, cyc, chan>>

\* stop(), lines 366-376: the flag is cleared, the sensor handles are
\* released and, for a channel handle, the close coroutine is scheduled as a
\* task.
StopRelease ==
    /\ main.pc = "running" /\ spc = "cancelled" /\ wpc = "cancelled"
    /\ is_running' = FALSE
    /\ main' = [pc |-> "stopping", scan_ran |-> FALSE,
                rfid_closed |-> rfid_serial, camera_released |-> camera,
                close_task |-> websocket # None]
    /\ UNCHANGED <<now, rfid_serial, camera, websocket, last_scan_time, led,
                   buzzer, holder, spc, swake, wpc, wwake, slocal, wlocal,
                   budget, poll, dec, cyc, chan, cmd>>

\* stop(), lines 379-383: the three LEDs are switched off and GPIO.cleanup
\* resets every pin; stop() returns with the close task still waiting for
\* the event loop.
StopOutputs ==
    /\ main.pc = "stopping"
    /\ led' = [c \in Colors |-> FALSE]
    /\ buzzer' = FALSE
    /\ main' = [main EXCEPT !.pc = "stopped"]
    /\ UNCHANGED <<now, is_running, rfid_serial, camera, websocket,
                   last_scan_time, holder, spc, swake, wpc, wwake, slocal,
                   wlocal, budget, poll, dec, cyc, chan, cmd>>

\* The task made at line 376 runs in the event loop's next iteration, after
\* stop() and main have returned: the connection is closed then.
CloseTask ==
    /\ main.pc = "stopped" /\ main.close_task
    /\ websocket' = "closed"
    /\ main' = [main EXCEPT !.close_task = FALSE]
    /\ UNCHANGED <<now, is_running, rfid_serial, camera, last_scan_time, led,
                   buzzer, holder, spc, swake, wpc, wwake, slocal, wlocal,
                   budget, poll, dec, cyc, chan, cmd>>

\* ----------------------------------------------------------- environment
\* The peer closes the connection; the library sees it at an await.
PeerClose ==
    /\ websocket = "open" /\ holder = "none" /\ main.pc = "running"
    /\ ~Interrupted(spc, wpc)
    /\ websocket' = "closed"
    /\ cmd' = KeepCmd(wpc, cmd)
    /\ main' = AtAwait(main, FALSE)
    /\ UNCHANGED <<now, is_running, rfid_serial, camera, last_scan_time, led,
                   buzzer, holder, spc, swake, wpc, wwake, slocal, wlocal,
                   budget, poll, dec, cyc, chan>>

\* The event loop sleeps until the earliest deadline when no coroutine is
\* ready.  A connect attempt is resolved within the tick it starts in.
ScanSleeping == spc \in {"idle", "hold", "yhold", "ehold"}
WsSleeping   == wpc \in {"sleep", "ledhold"}
NextWake ==
    IF ScanSleeping /\ WsSleeping THEN Min(swake, wwake)
    ELSE IF ScanSleeping THEN swake ELSE wwake

Advance ==
    /\ holder = "none" /\ ~Interrupted(spc, wpc)
    /\ ScanSleeping \/ WsSleeping
    /\ ScanSleeping => swake > now
    /\ WsSleeping => wwake > now
    /\ wpc # "connecting"
    /\ NextWake <= budget.until
    /\ now' = NextWake
    /\ cmd' = KeepCmd(wpc, cmd)
    /\ main' = AtAwait(main, FALSE)
    /\ UNCHANGED <<is_running, rfid_serial, camera, websocket, last_scan_time,
                   led, buzzer, holder, spc, swake, wpc, wwake, slocal, wlocal,
                   budget, poll, dec, cyc, chan>>

\* ------------------------------------------------------------------ Next
Next ==
    \/ Start
    \/ \E line \in Ids \cup {None, Err}, frame \in Ids \cup {None, Err} :
          ScanPoll(line, frame)
    \/ \E net \in {"timeout", "refused", "response"},
          status \in Statuses, body \in Bodies : ScanPost(net, status, body)
    \/ ScanBuzzOn
    \/ ScanBuzzOff
    \/ ScanNotify
    \/ ScanVerdictDone
    \/ ScanBackendErrDone
    \/ ScanErrorDone
    \/ WsWake
    \/ \E result \in {"fail", "open", "closed"} : WsConnectDone(result)
    \/ WsRecvClosed
    \/ \E msg \in Messages : WsRecv(msg)
    \/ WsLedDone
    \/ WsBuzzOn
    \/ WsBuzzOff
    \/ PeerClose
    \/ ScanCancelled
    \/ WsCancelled
    \/ StopRelease
    \/ StopOutputs
    \/ CloseTask
    \/ Advance

Spec == Init /\ [][Next]_vars

\* The event loop runs every coroutine that is ready and lets time pass when
\* none is; a report call and a connect attempt end (each has a timeout).
\* Nothing obliges the environment to present identifiers, deliver messages,
\* close the connection or interrupt the process.
ProgramStep ==
    \/ \E line \in Ids \cup {None, Err}, frame \in Ids \cup {None, Err} :
          ScanPoll(line, frame)
    \/ \E net \in {"timeout", "refused", "response"},
          status \in Statuses, body \in Bodies : ScanPost(net, status, body)
    \/ ScanBuzzOn \/ ScanBuzzOff \/ ScanNotify
    \/ ScanVerdictDone \/ ScanBackendErrDone \/ ScanErrorDone
    \/ WsWake
    \/ \E result \in {"fail", "open", "closed"} : WsConnectDone(result)
    \/ WsRecvClosed \/ WsLedDone \/ WsBuzzOn \/ WsBuzzOff
    \/ (spc = "cancelled" /\ WsCancelled)
    \/ (wpc = "cancelled" /\ ScanCancelled)
    \/ StopRelease \/ StopOutputs \/ CloseTask
    \/ Advance

LiveSpec == LiveInit /\ [][Next]_vars /\ WF_vars(ProgramStep)


\* ================================================================ claims
Verdicts      == {"registered", "unregistered", "missing"}
Notifications == {"vehicle_detected", "unregistered_vehicle"}

\* C1: a scan of X at time t is accepted exactly when X was never accepted
\* before or t - lastAccepted(X) >= 5 s; an accepted scan is reported once and
\* sets lastAccepted(X) to t; a suppressed scan leaves lastAccepted(X) as it
\* was and causes no report and no feedback.
DedupDecision ==
    dec.vid # None =>
        /\ dec.accepted <=> (dec.prev = NoTime \/ dec.at - dec.prev >= 50)
        /\ last_scan_time[dec.vid] = IF dec.accepted THEN dec.at ELSE dec.prev
        /\ ~dec.accepted => (cyc = NoCyc /\ spc = "idle" /\ slocal = NoLocals)
        /\ dec.accepted =>
              /\ cyc.vid = dec.vid /\ cyc.t0 = dec.at
              /\ spc # "post" => cyc.posts = 1

\* A second scan of an identifier accepted exactly when the cooldown ends.
DedupWitness ==
    /\ dec.vid # None /\ dec.accepted /\ dec.prev # NoTime
    /\ dec.at - dec.prev = 50 /\ cyc.posts = 1

\* C2: when the RFID reader yields an identifier, only that identifier is
\* processed and the QR scanner is not polled; the QR scanner is polled
\* exactly when the RFID poll yielded nothing and a camera is available.
RfidPriority ==
    poll.at # NoTime =>
        LET rfidHas == rfid_serial /\ poll.line \in Ids
            qrHas   == camera /\ poll.frame \in Ids
        IN  /\ rfidHas => (poll.vid = poll.line /\ poll.src = "rfid"
                           /\ ~poll.qrPolled)
            /\ poll.qrPolled <=> (~rfidHas /\ camera)
            /\ (~rfidHas /\ qrHas) => (poll.vid = poll.frame /\ poll.src = "qr")
            /\ (~rfidHas /\ ~qrHas) => poll.vid = None
            /\ spc = "post" => (slocal.vehicle_id = poll.vid
                                /\ cyc.vid = poll.vid)

\* Both sensors hold different identifiers in one cycle and a scan is
\* being processed.
RfidPriorityWitness ==
    /\ rfid_serial /\ camera /\ poll.line \in Ids /\ poll.frame \in Ids
    /\ poll.line # poll.frame /\ spc = "post"

\* C3: an accepted scan answered 200 with the channel connected: a registered
\* verdict turns only green on, buzzes once for 0.3 s and sends exactly one
\* vehicle_detected; an unregistered verdict turns only red on, buzzes once
\* for 1.0 s and sends exactly one unregistered_vehicle.
VerdictFeedback ==
    (cyc.done /\ cyc.net = "response" /\ cyc.status = 200
     /\ cyc.body \in Verdicts /\ cyc.wsAtNotify = "open") =>
        IF cyc.body = "registered"
        THEN /\ cyc.on = {"green"} /\ cyc.buzz = <<3>>
             /\ cyc.sent = <<"vehicle_detected">>
        ELSE /\ cyc.on = {"red"} /\ cyc.buzz = <<10>>
             /\ cyc.sent = <<"unregistered_vehicle">>

\* A registered verdict was notified on an open channel and the cycle ended.
VerdictFeedbackWitness ==
    /\ cyc.done /\ cyc.body = "registered" /\ cyc.wsAtNotify = "open"
    /\ cyc.sent = <<"vehicle_detected">>

\* C4: the verdict LED goes off exactly 2.0 s after the scan, not later by
\* the length of the buzzer pulse.
HoldIsTwoSeconds ==
    (cyc.done /\ cyc.net = "response" /\ cyc.status = 200
     /\ cyc.body \in Verdicts /\ ~cyc.err /\ ~cyc.blocked) =>
        LET col == IF cyc.body = "registered" THEN "green" ELSE "red"
        IN  /\ cyc.onAt[col] = cyc.t0
            /\ cyc.offAt[col] = cyc.t0 + 20

\* C5: a report call that times out or cannot connect turns yellow on, gives
\* no buzz and no notification, turns yellow off 1.0 s later and never turns
\* red or green on.
UnreachableIsYellow ==
    (cyc.done /\ cyc.net \in {"timeout", "refused"}) =>
        /\ cyc.on = {"yellow"} /\ cyc.buzz = <<>> /\ cyc.sent = <<>>
        /\ cyc.offAt["yellow"] >= cyc.onAt["yellow"] + 10

\* C6: a non-200 answer turns yellow on, gives no buzz and no notification,
\* turns yellow off when the 1.0 s wait ends, and never turns red or green on.
RejectedIsYellow ==
    (cyc.net = "response" /\ cyc.status # 200) =>
        /\ cyc.on = {"yellow"} /\ cyc.buzz = <<>> /\ cyc.sent = <<>>
        /\ cyc.done =>
              /\ ~cyc.atReturn["yellow"]
              /\ cyc.offAt["yellow"] >= cyc.onAt["yellow"] + 10
              /\ ~cyc.blocked => cyc.offAt["yellow"] = cyc.onAt["yellow"] + 10

\* A 201 answer was handled and its cycle ended.
RejectedWitness ==
    cyc.done /\ cyc.net = "response" /\ cyc.status = 201

\* C7: every LED an accepted scan turned on is off when process_vehicle_scan
\* returns, whichever branch was taken.
AutoClear ==
    cyc.done => \A c \in cyc.on : ~cyc.atReturn[c]

\* C8: a notification attempted without a connection raises nothing (the
\* cycle shows its normal green or red feedback, no error pulse), and it is
\* not sent later, also not once the channel is connected again.
NotificationDrop ==
    (cyc.wsAtNotify = None) =>
        /\ cyc.sent = <<>> /\ ~cyc.err
        /\ cyc.on = {IF cyc.body = "registered" THEN "green" ELSE "red"}
        /\ spc \in {"hold", "idle", "cancelled"}
        /\ ~(chan.wire \in Notifications /\ chan.wireVid = cyc.vid
             /\ chan.wireTs = cyc.t0)
        /\ chan.wire \in {None, "hardware_status"}

\* A notification was dropped, then the channel connected and sent its status
\* while that cycle's record is still there.
NotificationDropWitness ==
    /\ cyc.wsAtNotify = None /\ cyc.done /\ websocket = "open"
    /\ chan.wire = "hardware_status"

\* C9: after a failed send or a failed receive the handle is cleared; the
\* channel never stays connected.
FailureDisconnects ==
    chan.op \in {"send_fail", "recv_closed"} => websocket = None


\* C10: a connect attempt that follows a failure (a failed attempt or a closed
\* connection) starts no sooner than 5 s after that failure, and after every
\* such failure the loop does start another attempt, unless the process is
\* stopped first.
BackoffRespected ==
    (wpc = "connecting" /\ chan.discAt # NoTime) =>
        chan.tryAt >= chan.discAt + 50

RetryPending ==
    /\ websocket = None /\ wpc = "sleep" /\ chan.discAt # NoTime
    /\ chan.discAt + 50 + LongBuzz <= budget.until

ReconnectBackoff ==
    /\ []BackoffRespected
    /\ RetryPending ~> (\/ wpc = "connecting" /\ chan.tryAt >= chan.discAt + 50
                        \/ ~is_running)

\* A run in which a connect attempt followed a failed attempt and another
\* followed a connection the peer had closed.
ReconnectWitness ==
    /\ wpc = "connecting" /\ chan.tryAt >= chan.discAt + 50
    /\ chan.retried = {"connect_fail", "recv_closed"}

\* C11: the first message to go out on a connection is the hardware_status
\* payload: an open connection has carried it before anything else, so a
\* notification of the scan loop is never the first message on a connection.
StatusFirst ==
    /\ websocket = "open" => chan.first = "hardware_status"
    /\ chan.first \notin Notifications
    /\ chan.wire \in Notifications => chan.first = "hardware_status"

\* A notification of the scan loop went out on a connection.
StatusFirstWitness ==
    /\ chan.wire \in Notifications /\ cyc.sent # <<>>
    /\ chan.first = "hardware_status"

\* C12: after a cycle that failed (a sensor read that raised, a report that
\* was refused, timed out or was rejected, a notification that could not be
\* sent) the scan loop polls the sensors again unless the process is stopped,
\* and while the running flag is set nothing but an interrupt ends the loop.
CycleFailed ==
    /\ \/ spc \in {"yhold", "ehold"}
       \/ spc = "idle" /\ Err \in {poll.line, poll.frame}
    /\ swake + IdlePause + MaxMsgs * LongBuzz <= budget.until

PolledAgain == poll.at # NoTime /\ poll.after \in {"failed", "sensor_error"}

ScanResilient ==
    /\ [](is_running => spc \in {"idle", "post", "buzz", "buzzing", "notify",
                                  "hold", "yhold", "ehold", "cancelled"})
    /\ CycleFailed ~> (PolledAgain \/ ~is_running)

\* The poll that follows a cycle whose notification could not be sent.
ScanResilientWitness ==
    /\ poll.after = "failed" /\ spc = "idle" /\ is_running
    /\ chan.op = "send_fail"

\* C13: in the runs in which every connect attempt fails, an accepted scan
\* is reported once, shows the feedback of its outcome and is followed by
\* another poll; the cycle never waits for a connection.
ChannelDown == ~budget.up /\ websocket = None

\* The longest a cycle can still take, report timeout and holds included,
\* fits before the clock stops.
CycleFits ==
    CASE spc = "post" ->
           now + PostTimeout + ErrorHold + IdlePause <= budget.until
      [] spc \in {"buzz", "buzzing", "notify"} ->
           now + LongBuzz + VerdictHold + IdlePause <= budget.until
      [] spc \in {"hold", "yhold", "ehold"} ->
           swake + IdlePause <= budget.until
      [] OTHER -> FALSE

ScanUnblocked ==
    /\ [](~budget.up => websocket = None)
    /\ []((ChannelDown /\ cyc.done /\ cyc.post \in {"registered", "unregistered"})
            => (cyc.posts = 1 /\ ~cyc.err /\ cyc.sent = <<>>
                /\ cyc.buzz = <<VerdictBuzz(cyc.post)>>
                /\ cyc.on = {OutcomeLed(cyc.post)}
                /\ cyc.offAt[OutcomeLed(cyc.post)] = cyc.due))
    /\ (ChannelDown /\ CycleFits)
          ~> (spc = "idle" /\ poll.after \in {"ok", "failed"})

\* A verdict cycle ran to its end after a connect attempt had failed, and
\* the loop polled again.
ScanUnblockedWitness ==
    /\ ChannelDown /\ chan.op = "connect_fail" /\ spc = "idle"
    /\ poll.after = "ok" /\ poll.at > 50

\* C14: the channel loop is never kept from a step that is due: whenever it
\* sleeps, its wake-up time has not passed.
ChannelNeverOverdue ==
    (is_running /\ wpc \in {"sleep", "ledhold"}) => now <= wwake

\* C15: once stop() has returned both loops have ended, the sensor handles
\* are released, the connection is closed and every LED is off.
ShutdownComplete ==
    main.pc = "stopped" =>
        /\ spc = "cancelled" /\ wpc = "cancelled" /\ ~is_running
        /\ rfid_serial => main.rfid_closed
        /\ camera => main.camera_released
        /\ \A c \in Colors : ~led[c]
        /\ websocket # "open"

\* C16: an accepted scan makes exactly one report call, whatever its result;
\* a suppressed scan makes none; and an identifier whose report failed is
\* suppressed like any other when it is read again within the cooldown.
FailedReports == {"unreachable", "rejected", "badbody"}

AtMostOnce ==
    /\ cyc.posts <= 1
    /\ spc = "post" => cyc.posts = 0
    /\ (cyc.vid # None /\ spc # "post") => cyc.posts = 1
    /\ (dec.vid # None /\ ~dec.accepted) => cyc = NoCyc
    /\ (dec.after \in FailedReports /\ dec.at - dec.prev < 50) =>
          (~dec.accepted /\ cyc = NoCyc /\ last_scan_time[dec.vid] = dec.prev)

\* An identifier read again right after its report had failed.
AtMostOnceWitness ==
    /\ dec.vid # None /\ dec.after \in FailedReports /\ ~dec.accepted
    /\ dec.at - dec.prev < 50

\* C17: the two loops never pulse the buzzer at the same time, and the
\* buzzer is low whenever no pulse is in progress.
BuzzerExclusive ==
    /\ ~(spc = "buzzing" /\ wpc = "buzzing")
    /\ (spc # "buzzing" /\ wpc # "buzzing") => ~buzzer

\* C18: an LED switched on by a verdict stays on until the verdict's hold
\* ends, and an LED switched on by test_led stays on until its 1 s ends.
LedSignalHeld ==
    /\ spc = "hold" => \A c \in cyc.on : led[c]
    /\ (wpc = "ledhold" /\ wlocal.color \in Colors) => led[wlocal.color]

\* C20: the scanType reported for an accepted scan names the sensor that
\* produced the identifier in that cycle.
SourceKindMatches ==
    cyc.scanType # None => cyc.scanType = cyc.src

\* C19: an inbound message is dispatched by its tag, once: test_led switches
\* the colour on and, no sooner than 1.0 s later, off; test_buzzer pulses the
\* buzzer for the duration it asks for, high and then low again;
\* status_request sends the status payload; a
\* message with an unknown tag, of another type or with a body that does not
\* parse changes no LED, not the buzzer and not the channel, and the loop
\* goes on receiving.
Commands == {"test_led", "test_buzzer", "status_request"}

CommandDispatch ==
    cmd.kind # None =>
        /\ cmd.calls = IF cmd.kind \in Commands THEN 1 ELSE 0
        /\ cmd.kind = "test_led" =>
              /\ cmd.led1 = [c \in Colors |->
                               IF c = cmd.color THEN TRUE ELSE cmd.led0[c]]
              /\ websocket \in {cmd.ws0, "closed"}
              /\ ~cmd.done => (wpc = "ledhold" /\ wlocal.color = cmd.color
                               /\ wwake = cmd.at + 10)
              /\ cmd.done => (cmd.endAt >= cmd.at + 10
                              /\ (cmd.color \in Colors => ~led[cmd.color])
                              /\ wpc \in {"recv", "connecting"})
        /\ cmd.kind = "test_buzzer" =>
              /\ led = cmd.led0
              /\ ~cmd.done => (wpc \in {"buzz", "buzzing"} /\ holder = "ws"
                               /\ wlocal.duration = cmd.duration
                               /\ now = cmd.at)
              /\ wpc = "buzzing" => buzzer
              /\ cmd.done =>
                    (cmd.endAt = cmd.at + cmd.duration /\ ~buzzer
                     /\ wpc = "recv")
        /\ cmd.kind = "status_request" =>
              /\ cmd.done /\ chan.wire = "hardware_status"
              /\ chan.op = "send_ok" /\ chan.first = cmd.chan0.first
              /\ led = cmd.led0 /\ buzzer = cmd.buzzer0
              /\ websocket = cmd.ws0 /\ wpc = "recv"
        /\ cmd.kind \notin Commands =>
              /\ cmd.done /\ led = cmd.led0 /\ buzzer = cmd.buzzer0
              /\ websocket = cmd.ws0 /\ chan = cmd.chan0
              /\ wlocal = NoCommand /\ holder = "none"
              /\ IF cmd.kind = "unparsable"
                 THEN wpc = "sleep" /\ wwake = cmd.at + 10
                 ELSE wpc = "recv"

====
